---- MODULE Spec2Model ----
(***************************************************************************)
(* Model of rundeck/connection.py: the memoize decorator, RundeckResponse  *)
(* (lazily parsed, memoized views of one HTTP response) and                *)
(* RundeckConnection (construction, make_url, execute_cmd).                *)
(*                                                                         *)
(* Python str values are sequences of one-character strings, so that       *)
(* formatting, joining and stripping are computed character by character.  *)
(* Python values stored in caches and results are tagged records           *)
(* [py |-> type, v |-> payload].                                           *)
(***************************************************************************)
EXTENDS Integers, Sequences, FiniteSets, TLC

VARIABLES conn, heap, supplied, cache, calls, first, reads, responses, last

vars == <<conn, heap, supplied, cache, calls, first, reads, responses, last>>

(* ---------------------------- bounds ----------------------------------- *)
\* number of object addresses the allocator hands out
NumAddrs == 2
\* longest api_url handed to make_url
MaxPathLen == 3
\* how many HTTP responses (wrapped or refused) one run sees
MaxResponses == 2
\* how many property reads the caller makes in one run
MaxReads == 2

Addrs == 1..NumAddrs

(* ---------------------------- strings ---------------------------------- *)
DigitChars == <<"0", "1", "2", "3", "4", "5", "6", "7", "8", "9">>

RECURSIVE IntToStr(_)
\* str(n) / '{0}'.format(n) for a natural number
IntToStr(n) ==
    IF n < 10 THEN <<DigitChars[n + 1]>>
    ELSE IntToStr(n \div 10) \o <<DigitChars[(n % 10) + 1]>>

IsDigit(c) == \E d \in 1..10 : DigitChars[d] = c

DigitVal(c) == (CHOOSE d \in 1..10 : DigitChars[d] = c) - 1

RECURSIVE StrToInt(_)
\* int(s) for a non-empty string of decimal digits
StrToInt(s) ==
    IF Len(s) = 1 THEN DigitVal(s[1])
    ELSE 10 * StrToInt(SubSeq(s, 1, Len(s) - 1)) + DigitVal(s[Len(s)])

\* faulty variant: drops one leading occurrence only
lstrip_one(s, c) == IF s # <<>> /\ Head(s) = c THEN Tail(s) ELSE s

RECURSIVE lstrip(_, _)
\* s.lstrip(c): drops every leading occurrence of c
lstrip(s, c) ==
    IF s # <<>> /\ Head(s) = c THEN lstrip(Tail(s), c) ELSE s

RECURSIVE join(_, _)
\* sep.join(parts)
join(sep, parts) ==
    IF parts = <<>> THEN <<>>
    ELSE IF Len(parts) = 1 THEN parts[1]
    ELSE parts[1] \o sep \o join(sep, Tail(parts))

Http == <<"h", "t", "t", "p">>
Https == <<"h", "t", "t", "p", "s">>
Ftp == <<"f", "t", "p">>
Localhost == <<"l", "o", "c", "a", "l", "h", "o", "s", "t">>

(* ------------------------- python values ------------------------------- *)
PyNone == [py |-> "None", v |-> 0]
PyStr(s) == [py |-> "str", v |-> s]
PyInt(n) == [py |-> "int", v |-> n]
PyBool(b) == [py |-> "bool", v |-> b]
PyObj(t, x) == [py |-> t, v |-> x]

IsNone(x) == x.py = "None"

PyEq(a, b) == a.py = b.py /\ a.v = b.v

Return(x) == [kind |-> "return", value |-> x]
Raise(e) == [kind |-> "raise", value |-> PyObj("exc", e)]

SameRes(r, s) == r.kind = s.kind /\ PyEq(r.value, s.value)

(* --------------------------- connection -------------------------------- *)
Protocols == {Http, Https, Ftp}
Ports == {80, 443, 4440}
Tokens == {PyNone, PyStr(<<"t">>)}
Users == {PyNone, PyStr(<<"u">>)}
Passwords == {PyNone, PyStr(<<"p">>)}
ApiVersions == {1, 14}

NoConn == [constructed |-> FALSE]

\* faulty variant: https compared with the http default
ServerOf_http_default(server, protocol, port) ==
    IF (protocol = Http /\ port # 80) \/ (protocol = Https /\ port # 80)
    THEN server \o <<":">> \o IntToStr(port)
    ELSE server

\* lines 122-123: the port is appended unless it is the protocol's default
ServerOf(server, protocol, port) ==
    IF (protocol = Http /\ port # 80) \/ (protocol = Https /\ port # 443)
    THEN server \o <<":">> \o IntToStr(port)
    ELSE server

\* line 125: the condition under which InvalidAuthentication is raised
NoCredentials(api_token, usr, pwd) ==
    IsNone(api_token) /\ IsNone(usr) /\ IsNone(pwd)

\* line 135
BaseUrlOf(protocol, server) ==
    protocol \o <<":", "/", "/">> \o server \o <<"/", "a", "p", "i">>

\* RundeckConnection.__init__: the outcome and, on success, the object
RundeckConnection(server, protocol, port, api_token, usr, pwd, version) ==
    LET srv == ServerOf(server, protocol, port) IN
    IF NoCredentials(api_token, usr, pwd)
    THEN [res |-> Raise("InvalidAuthentication"), obj |-> NoConn]
    ELSE IF IsNone(api_token) /\ ~IsNone(usr) /\ ~IsNone(pwd)
    THEN [res |-> Raise("NotImplementedError"), obj |-> NoConn]
    ELSE [res |-> Return(PyNone),
          obj |-> [constructed |-> TRUE,
                   protocol |-> protocol,
                   usr |-> usr,
                   pwd |-> pwd,
                   server |-> srv,
                   api_token |-> api_token,
                   api_version |-> version,
                   auth_header |-> api_token,
                   base_url |-> BaseUrlOf(protocol, srv)]]

\* RundeckConnection.make_url
make_url(self, api_url) ==
    join(<<"/">>, <<self.base_url, IntToStr(self.api_version), lstrip(api_url, "/")>>)

(* ------------------------- response bodies ----------------------------- *)
NoAttrib == [n \in {} |-> <<>>]
NoChildren == [n \in {} |-> 0]

\* an XML element: attributes, child elements by tag, text
Element(attrib, children, text) ==
    [attrib |-> attrib, children |-> children, text |-> text]

MessageEl(t) == Element(NoAttrib, NoChildren, PyStr(t))

Ok == <<"o", "k">>
Bad == <<"b", "a", "d">>

\* <result apiversion="14" success="true"><success><message>ok</message></success></result>
OkDoc ==
    Element(("apiversion" :> <<"1", "4">>) @@ ("success" :> <<"t", "r", "u", "e">>),
            "success" :> Element(NoAttrib, "message" :> MessageEl(Ok), PyNone),
            PyNone)

\* <result error="true"><error><message>bad</message></error></result>
ErrDoc ==
    Element("error" :> <<"t", "r", "u", "e">>,
            "error" :> Element(NoAttrib, "message" :> MessageEl(Bad), PyNone),
            PyNone)

\* <result success="true"><error><message>bad</message></error></result>
NoSuccessChildDoc ==
    Element("success" :> <<"t", "r", "u", "e">>,
            "error" :> Element(NoAttrib, "message" :> MessageEl(Bad), PyNone),
            PyNone)

\* <result apiversion="1" error="true"><error/></result>
NoMessageDoc ==
    Element(("apiversion" :> <<"1">>) @@ ("error" :> <<"t", "r", "u", "e">>),
            "error" :> Element(NoAttrib, NoChildren, PyNone),
            PyNone)

\* response.text: a well-formed document, or text that is not XML
XmlText(doc) == [wellformed |-> TRUE, doc |-> doc]
NotXml == [wellformed |-> FALSE, doc |-> Element(NoAttrib, NoChildren, PyNone)]

Bodies == {XmlText(OkDoc), XmlText(ErrDoc), XmlText(NoSuccessChildDoc),
           XmlText(NoMessageDoc), NotXml}

Statuses == {200, 304, 403, 500}

\* ElementTree.fromstring(text)
fromstring(text) ==
    IF text.wellformed THEN Return(PyObj("Element", text.doc)) ELSE Raise("ParseError")

\* xml.dom.minidom.parseString(text).toprettyxml()
toprettyxml(text) ==
    IF text.wellformed THEN Return(PyObj("pretty", text.doc)) ELSE Raise("ExpatError")

\* element.find(tag): the first child with that tag, or None
find(el, tag) ==
    IF tag \in DOMAIN el.children THEN PyObj("Element", el.children[tag]) ELSE PyNone

\* int(attrib.get('apiversion', -1))
int_apiversion(attrib) ==
    IF "apiversion" \notin DOMAIN attrib THEN Return(PyInt(-1))
    ELSE IF \A i \in 1..Len(attrib["apiversion"]) : IsDigit(attrib["apiversion"][i])
    THEN Return(PyInt(StrToInt(attrib["apiversion"])))
    ELSE Raise("ValueError")

\* the caller's projection function applied to a wrapper
Project(w) == PyObj("dict", w._response.text)

(* --------------------------- memoize ----------------------------------- *)
Accessors == {"etree", "pprint", "as_dict", "api_version", "success", "message"}

\* line 27: str(args) + str(kwargs) with args = (self,); the default repr of
\* the wrapper names its class and its address
Key(self) == <<"RundeckResponse object at", self>>

NoCount == [invoked |-> 0, returned |-> 0]

\* line 29, the call obj(*args, **kwargs): one more run of the function
\* under accessor acc on the wrapper at self
Run(acc, st, self) == [st EXCEPT !.calls[self][acc].invoked = @ + 1]

\* faulty variant: the result is never stored
memoizer_nocache(acc, st, self, r) ==
    IF r.res.kind = "return"
    THEN [st |-> [r.st EXCEPT !.calls[self][acc].returned = @ + 1], res |-> r.res]
    ELSE r

\* the memoizer closure of the function under accessor acc: st carries the
\* caches and the run counts, r is the outcome of running the function
\* (used on a miss only)
memoizer(acc, st, self, r) ==
    IF Key(self) \in DOMAIN st.cache[acc]
    THEN [st |-> st, res |-> Return(st.cache[acc][Key(self)])]
    ELSE IF r.res.kind = "return"
         THEN [st |-> [r.st EXCEPT !.cache[acc] = (Key(self) :> r.res.value) @@ @,
                                   !.calls[self][acc].returned = @ + 1],
               res |-> r.res]
         ELSE r

(* ------------------------ RundeckResponse ------------------------------ *)
\* RundeckResponse.__init__
RundeckResponse(response, as_dict_method) ==
    [_response |-> response, _as_dict_method |-> PyNone]

body(st, self) == st.heap[self]._response.text

etree_fn(st, self) == [st |-> st, res |-> fromstring(body(st, self))]

etree(st, self) ==
    memoizer("etree", st, self, etree_fn(Run("etree", st, self), self))

pprint_fn(st, self) == [st |-> st, res |-> toprettyxml(body(st, self))]

pprint(st, self) ==
    memoizer("pprint", st, self, pprint_fn(Run("pprint", st, self), self))

as_dict_fn(st, self) ==
    IF IsNone(st.heap[self]._as_dict_method)
    THEN [st |-> st, res |-> Return(PyNone)]
    ELSE [st |-> st, res |-> Return(Project(st.heap[self]))]

as_dict(st, self) ==
    memoizer("as_dict", st, self, as_dict_fn(Run("as_dict", st, self), self))

success_fn(st, self) ==
    LET t == etree(st, self) IN
    IF t.res.kind = "raise" THEN t
    ELSE [st |-> t.st, res |-> Return(PyBool("success" \in DOMAIN t.res.value.v.attrib))]

success(st, self) ==
    memoizer("success", st, self, success_fn(Run("success", st, self), self))

\* faulty variant: api_version consults success before the tree
api_version_fn_via_success(st, self) ==
    LET s == success(st, self) IN
    IF s.res.kind = "raise" THEN s
    ELSE LET t == etree(s.st, self) IN
         IF t.res.kind = "raise" THEN t
         ELSE [st |-> t.st, res |-> int_apiversion(t.res.value.v.attrib)]

api_version_fn(st, self) ==
    LET t == etree(st, self) IN
    IF t.res.kind = "raise" THEN t
    ELSE [st |-> t.st, res |-> int_apiversion(t.res.value.v.attrib)]

api_version(st, self) ==
    memoizer("api_version", st, self, api_version_fn(Run("api_version", st, self), self))

message_fn(st, self) ==
    LET s == success(st, self) IN
    IF s.res.kind = "raise" THEN s
    ELSE LET t == etree(s.st, self) IN
         IF t.res.kind = "raise" THEN t
         ELSE LET message_el == find(t.res.value.v, IF s.res.value.v THEN "success" ELSE "error") IN
              IF IsNone(message_el) THEN [st |-> t.st, res |-> Raise("AttributeError")]
              ELSE LET m == find(message_el.v, "message") IN
                   IF IsNone(m) THEN [st |-> t.st, res |-> Raise("AttributeError")]
                   ELSE [st |-> t.st, res |-> Return(m.v.text)]

message(st, self) ==
    memoizer("message", st, self, message_fn(Run("message", st, self), self))

\* reading accessor acc of the wrapper at address self
Get(acc, st, self) ==
    CASE acc = "etree" -> etree(st, self)
      [] acc = "pprint" -> pprint(st, self)
      [] acc = "as_dict" -> as_dict(st, self)
      [] acc = "api_version" -> api_version(st, self)
      [] acc = "success" -> success(st, self)
      [] acc = "message" -> message(st, self)

(* ------------------------------ state ---------------------------------- *)
\* conn     : the RundeckConnection the caller holds (NoConn before one exists)
\* heap     : live RundeckResponse objects by address
\* supplied : the as_dict_method argument each live wrapper was constructed with
\* cache    : the cache dict of each memoized function
\* calls    : per live wrapper and accessor, how often the decorated function
\*            was run and how often it returned
\* first    : per live wrapper and accessor, how often the caller read it and
\*            the outcome of the first read
\* reads    : the number of property reads so far
\* responses: the number of HTTP responses received so far
\* last     : the last operation and its outcome
Paths == UNION {[1..n -> {"/", "a"}] : n \in 0..MaxPathLen}

ExecPaths == {<<"/", "a">>}

Methods == {"GET"}

NoKeys == [k \in {} |-> PyNone]

NoArg == [none |-> TRUE]

Op(op, self, acc, arg, res) ==
    [op |-> op, self |-> self, acc |-> acc, arg |-> arg, res |-> res]

Unread == [n |-> 0, res |-> Return(PyNone)]

DefaultConn ==
    RundeckConnection(Localhost, Http, 4440, PyStr(<<"t">>), PyNone, PyNone, 14).obj

InitResponses ==
    /\ heap = [a \in {} |-> 0]
    /\ supplied = [a \in {} |-> PyNone]
    /\ cache = [acc \in Accessors |-> NoKeys]
    /\ calls = [a \in Addrs |-> [acc \in Accessors |-> NoCount]]
    /\ first = [a \in Addrs |-> [acc \in Accessors |-> Unread]]
    /\ reads = 0
    /\ responses = 0
    /\ last = Op("init", 0, "", NoArg, Return(PyNone))

Init ==
    /\ conn = DefaultConn
    /\ InitResponses

InitConn ==
    /\ conn = NoConn
    /\ InitResponses

\* a new object is placed at any address no live object occupies
Allocate(a, w, fn) ==
    /\ a \notin DOMAIN heap
    /\ heap' = (a :> w) @@ heap
    /\ supplied' = (a :> fn) @@ supplied
    /\ calls' = [calls EXCEPT ![a] = [acc \in Accessors |-> NoCount]]
    /\ first' = [first EXCEPT ![a] = [acc \in Accessors |-> Unread]]

\* faulty variant: every status outside 2xx is refused
raise_for_status_non2xx(status_code) == status_code < 200 \/ status_code >= 300

\* Response.raise_for_status(): HTTPError for client and server errors
raise_for_status(status_code) == 400 <= status_code /\ status_code < 600

\* conn = RundeckConnection(server, protocol, port, api_token, usr=, pwd=, api_version=)
Construct ==
    \E protocol \in Protocols, port \in Ports, api_token \in Tokens,
       usr \in Users, pwd \in Passwords, version \in ApiVersions :
        LET c == RundeckConnection(Localhost, protocol, port, api_token, usr, pwd, version) IN
        /\ conn' = IF c.res.kind = "return" THEN c.obj ELSE conn
        /\ last' = Op("construct", 0, "",
                      [server |-> Localhost, protocol |-> protocol, port |-> port,
                       api_token |-> api_token, usr |-> usr, pwd |-> pwd,
                       api_version |-> version, obj |-> c.obj],
                      c.res)
        /\ UNCHANGED <<heap, supplied, cache, calls, first, reads, responses>>

\* conn.make_url(api_url)
MakeUrl ==
    /\ conn.constructed
    /\ \E api_url \in Paths :
        last' = Op("make_url", 0, "", [api_url |-> api_url],
                   Return(PyStr(make_url(conn, api_url))))
    /\ UNCHANGED <<conn, heap, supplied, cache, calls, first, reads, responses>>

\* conn.execute_cmd(method, url): the transport answers with any status and body
ExecuteCmd ==
    /\ conn.constructed
    /\ responses < MaxResponses
    /\ responses' = responses + 1
    /\ \E method \in Methods, api_url \in ExecPaths, status_code \in Statuses, text \in Bodies :
        LET url == make_url(conn, api_url)
            headers == conn.api_token
            response == [status_code |-> status_code, text |-> text]
            arg == [method |-> method, url |-> url, headers |-> headers,
                    response |-> response]
        IN  IF raise_for_status(status_code)
            THEN /\ last' = Op("execute_cmd", 0, "", arg,
                               [kind |-> "raise", value |-> PyObj("HTTPError", status_code)])
                 /\ UNCHANGED <<heap, supplied, calls, first>>
            ELSE \E a \in Addrs :
                 /\ Allocate(a, RundeckResponse(response, PyNone), PyNone)
                 /\ last' = Op("execute_cmd", a, "", arg, Return(PyObj("RundeckResponse", a)))
    /\ UNCHANGED <<conn, cache, reads>>

\* RundeckResponse(response, as_dict_method) called directly
NewResponse ==
    /\ responses < MaxResponses
    /\ responses' = responses + 1
    /\ \E text \in Bodies, fn \in {PyNone, PyObj("function", "fn")}, a \in Addrs :
        LET response == [status_code |-> 200, text |-> text] IN
        /\ Allocate(a, RundeckResponse(response, fn), fn)
        /\ last' = Op("new", a, "", [response |-> response, as_dict_method |-> fn],
                      Return(PyObj("RundeckResponse", a)))
    /\ UNCHANGED <<conn, cache, reads>>

\* reading one memoized accessor of a live wrapper
Access(self, acc) ==
    /\ self \in DOMAIN heap
    /\ reads < MaxReads
    /\ reads' = reads + 1
    /\ LET r == Get(acc, [heap |-> heap, cache |-> cache, calls |-> calls], self) IN
        /\ cache' = r.st.cache
        /\ calls' = r.st.calls
        /\ first' = [first EXCEPT ![self][acc] =
                        [n |-> @.n + 1, res |-> IF @.n = 0 THEN r.res ELSE @.res]]
        /\ last' = Op("access", self, acc, NoArg, r.res)
    /\ UNCHANGED <<conn, heap, supplied, responses>>

\* RundeckResponse.response
ReadResponse(self) ==
    /\ self \in DOMAIN heap
    /\ reads < MaxReads
    /\ reads' = reads + 1
    /\ last' = Op("response", self, "", NoArg, Return(PyObj("Response", heap[self]._response)))
    /\ UNCHANGED <<conn, heap, supplied, cache, calls, first, responses>>

\* RundeckResponse.body
ReadBody(self) ==
    /\ self \in DOMAIN heap
    /\ reads < MaxReads
    /\ reads' = reads + 1
    /\ last' = Op("body", self, "", NoArg, Return(PyObj("text", heap[self]._response.text)))
    /\ UNCHANGED <<conn, heap, supplied, cache, calls, first, responses>>

\* the caller drops a wrapper and it is collected; the caches keep their entries
Discard(self) ==
    /\ self \in DOMAIN heap
    /\ heap' = [a \in DOMAIN heap \ {self} |-> heap[a]]
    /\ supplied' = [a \in DOMAIN supplied \ {self} |-> supplied[a]]
    /\ last' = Op("discard", self, "", NoArg, Return(PyNone))
    /\ UNCHANGED <<conn, cache, calls, first, reads, responses>>

Next ==
    \/ ExecuteCmd
    \/ NewResponse
    \/ \E self \in Addrs, acc \in Accessors : Access(self, acc)
    \/ \E self \in Addrs : ReadResponse(self)
    \/ \E self \in Addrs : ReadBody(self)
    \/ \E self \in Addrs : Discard(self)

Spec == Init /\ [][Next]_vars

NextConn ==
    \/ Construct
    \/ MakeUrl

SpecConn == InitConn /\ [][NextConn]_vars

(* ============================ properties =============================== *)
IsAccess == last.op = "access" /\ last.self \in DOMAIN heap

NoCaches == [acc \in Accessors |-> NoKeys]

\* what accessor acc of the wrapper at self yields when nothing is cached
Fresh(acc, self) ==
    Get(acc, [heap |-> heap, cache |-> NoCaches, calls |-> calls], self).res

ParseDependent == {"etree", "pprint", "success", "message", "api_version"}

\* the accessors the function under an accessor reads itself
Deps(acc) ==
    CASE acc = "api_version" -> {"etree"}
      [] acc = "success" -> {"etree"}
      [] acc = "message" -> {"success", "etree"}
      [] OTHER -> {}

\* C1 as stated: on every live wrapper the function under each accessor has
\* run at most once, and every read returns what the first read returned.
C1_ComputedExactlyOnce ==
    /\ \A a \in DOMAIN heap : \A acc \in Accessors : calls[a][acc].invoked <= 1
    /\ IsAccess => SameRes(last.res, first[last.self][last.acc].res)

\* C1 amended: on every live wrapper the function under each accessor has
\* returned a value at most once (a run that raises caches nothing and is
\* repeated by the next read), and every read has the outcome of the first read.
C1_ReturnsAtMostOnce ==
    /\ \A a \in DOMAIN heap : \A acc \in Accessors : calls[a][acc].returned <= 1
    /\ IsAccess => SameRes(last.res, first[last.self][last.acc].res)

\* C1 witness: an accessor read twice on one wrapper whose function ran once.
C1_Witness ==
    /\ IsAccess
    /\ first[last.self][last.acc].n = 2
    /\ calls[last.self][last.acc] = [invoked |-> 1, returned |-> 1]

\* C2: every accessor read on a wrapper yields the value derived from that
\* wrapper's own raw response, also when the wrapper was placed at the
\* address of a discarded one.
C2_NoCrossInstanceSharing ==
    IsAccess => SameRes(last.res, Fresh(last.acc, last.self))

\* C3: the structured view of a wrapper constructed with a projection
\* function is that function applied to the wrapper; without one it is None.
C3_StructuredView ==
    (IsAccess /\ last.acc = "as_dict") =>
        IF IsNone(supplied[last.self])
        THEN SameRes(last.res, Return(PyNone))
        ELSE SameRes(last.res, Return(Project(heap[last.self])))

\* C4: construction without api_token and without usr or without pwd raises
\* InvalidAuthentication; a constructed connection has an api_token or both
\* usr and pwd.
C4_AuthenticationRequired ==
    last.op = "construct" =>
        /\ (IsNone(last.arg.api_token) /\ (IsNone(last.arg.usr) \/ IsNone(last.arg.pwd)))
              => SameRes(last.res, Raise("InvalidAuthentication"))
        /\ last.res.kind = "return"
              => (~IsNone(last.arg.obj.api_token)
                  \/ (~IsNone(last.arg.obj.usr) /\ ~IsNone(last.arg.obj.pwd)))

\* C5 as stated: execute_cmd returns a wrapper only for a 2xx status and
\* raises HTTPError carrying the status for every other status.
C5_WrapperOnlyFor2xx ==
    last.op = "execute_cmd" =>
        LET status == last.arg.response.status_code IN
        IF 200 <= status /\ status < 300
        THEN last.res.kind = "return"
        ELSE /\ last.res.kind = "raise"
             /\ PyEq(last.res.value, PyObj("HTTPError", status))

\* C5 amended: execute_cmd raises HTTPError carrying the status, and creates
\* no wrapper, exactly for a 4xx or 5xx status; for every other status (3xx
\* included) it returns a new wrapper holding the response.
C5_HttpErrorFor4xx5xx ==
    [][(last'.op = "execute_cmd" /\ responses' = responses + 1) =>
        LET status == last'.arg.response.status_code IN
        IF 400 <= status /\ status < 600
        THEN /\ last'.res.kind = "raise"
             /\ PyEq(last'.res.value, PyObj("HTTPError", status))
             /\ heap' = heap
        ELSE /\ last'.res.kind = "return"
             /\ last'.self \in DOMAIN heap' \ DOMAIN heap
             /\ heap'[last'.self]._response = last'.arg.response]_vars

\* C5 witness: a 304 answer came back wrapped.
C5_Witness ==
    /\ last.op = "execute_cmd"
    /\ last.arg.response.status_code = 304
    /\ last.res.kind = "return"
    /\ last.self \in DOMAIN heap

UrlPrefix(c) == c.base_url \o <<"/">> \o IntToStr(c.api_version) \o <<"/">>

\* C6 as stated: make_url joins base_url, api_version and api_url with '/',
\* removing exactly one leading slash of api_url if there is one.
C6_StripsOneSlash ==
    last.op = "make_url" =>
        LET p == last.arg.api_url IN
        last.res.value.v =
            UrlPrefix(conn) \o (IF p # <<>> /\ p[1] = "/" THEN Tail(p) ELSE p)

\* C6 amended: make_url joins base_url, api_version and api_url with '/',
\* removing every leading slash of api_url and keeping the rest unchanged.
C6_StripsLeadingSlashes ==
    last.op = "make_url" =>
        LET p == last.arg.api_url IN
        \E k \in 0..Len(p) :
            /\ \A i \in 1..k : p[i] = "/"
            /\ k < Len(p) => p[k + 1] # "/"
            /\ last.res.value.v = UrlPrefix(conn) \o SubSeq(p, k + 1, Len(p))

\* C6 witness: a path with two leading slashes and an inner one.
C6_Witness ==
    /\ last.op = "make_url"
    /\ last.arg.api_url = <<"/", "/", "a">>
    /\ conn.api_version = 14
    /\ last.res.value.v = conn.base_url \o <<"/", "1", "4", "/", "a">>

PortText(port) ==
    CASE port = 80 -> <<"8", "0">>
      [] port = 443 -> <<"4", "4", "3">>
      [] port = 4440 -> <<"4", "4", "4", "0">>

\* C7: a connection constructed with protocol http or https has server
\* 'host:port' iff the port is not the protocol's default (80, 443), the
\* bare host otherwise, and base_url '{protocol}://{server}/api'.
C7_PortSuppression ==
    (last.op = "construct" /\ last.res.kind = "return"
        /\ last.arg.protocol \in {Http, Https}) =>
        LET default == IF last.arg.protocol = Http THEN 80 ELSE 443
            c == last.arg.obj
        IN  /\ conn = c
            /\ c.server = IF last.arg.port # default
                          THEN last.arg.server \o <<":">> \o PortText(last.arg.port)
                          ELSE last.arg.server
            /\ c.base_url = last.arg.protocol \o <<":", "/", "/">> \o c.server
                               \o <<"/", "a", "p", "i">>

\* C7 witness: https on port 80 keeps the port, and https on 443 drops it.
C7_Witness ==
    /\ last.op = "construct"
    /\ last.res.kind = "return"
    /\ last.arg.protocol = Https
    /\ last.arg.port = 80
    /\ conn.server = Localhost \o <<":", "8", "0">>

\* C8: on a well-formed body, message is the text of the 'message' child of
\* the root's 'success' child if the root has a 'success' attribute, of its
\* 'error' child otherwise, and the read fails if that element is absent.
C8_Message ==
    (IsAccess /\ last.acc = "message" /\ heap[last.self]._response.text.wellformed) =>
        LET root == heap[last.self]._response.text.doc
            tag == IF "success" \in DOMAIN root.attrib THEN "success" ELSE "error"
        IN  IF tag \in DOMAIN root.children
               /\ "message" \in DOMAIN root.children[tag].children
            THEN SameRes(last.res, Return(root.children[tag].children["message"].text))
            ELSE last.res.kind = "raise"

\* C9: execute_cmd on a 2xx answer returns a wrapper whatever the body,
\* response and body never fail, and on a body that is not XML the reads
\* that fail are exactly the reads of parsing-dependent accessors.
C9_ParsingDeferred ==
    /\ (last.op = "execute_cmd" /\ last.arg.response.status_code \in 200..299)
          => last.res.kind = "return"
    /\ last.op \in {"response", "body"} => last.res.kind = "return"
    /\ (IsAccess /\ ~heap[last.self]._response.text.wellformed)
          => (last.res.kind = "raise" <=> last.acc \in ParseDependent)

\* C10 as stated: a read of one accessor leaves the cache entry and the run
\* count of every other accessor unchanged.
C10_NoOtherAccessorComputed ==
    [][(last'.op = "access" /\ reads' = reads + 1) =>
        \A b \in Accessors \ {last'.acc} :
            /\ cache'[b] = cache[b]
            /\ calls'[last'.self][b] = calls[last'.self][b]]_vars

\* C10 amended: a read of one accessor leaves the cache entry and the run
\* count of every accessor unchanged except its own and those its function
\* reads: etree for api_version and success, success and etree for message.
C10_OnlyDependenciesComputed ==
    [][(last'.op = "access" /\ reads' = reads + 1) =>
        \A b \in Accessors \ ({last'.acc} \cup Deps(last'.acc)) :
            /\ cache'[b] = cache[b]
            /\ calls'[last'.self][b] = calls[last'.self][b]]_vars

\* C10 witness: the first read of message ran success and etree and nothing else.
C10_Witness ==
    /\ IsAccess
    /\ last.acc = "message"
    /\ first[last.self]["message"].n = 1
    /\ calls[last.self]["message"].invoked = 1
    /\ calls[last.self]["success"].invoked = 1
    /\ calls[last.self]["etree"].invoked = 1
    /\ calls[last.self]["api_version"].invoked = 0
    /\ calls[last.self]["pprint"].invoked = 0
    /\ Key(last.self) \notin DOMAIN cache["pprint"]

====
